---- MODULE Spec2Model ----
(***************************************************************************)
(* Dual (sample-space) operator regression of kooplearn:                   *)
(* src/kooplearn/_src/operator_regression/dual.py.                         *)
(*                                                                         *)
(* Numbers are exact integers (multiples of the machine epsilon, Eps = 1). *)
(* Matrices are sequences of rows.  The caller's arrays live in a heap     *)
(* `mem`, so that aliasing and in-place mutation are observable.  The      *)
(* library eigensolvers (scipy eig / eigs / eigh / eigsh) are environment  *)
(* choices: an action draws what the solver returns from a bounded set.    *)
(***************************************************************************)
EXTENDS Integers, Sequences, FiniteSets, TLC

VARIABLES
    mem,    \* heap: address -> array (NoArray when the address is free)
    entry,  \* the heap as it was when the running call was entered
    pc,     \* "idle": the caller is between calls; "done": a call has returned or raised
    op,     \* name of the function last called
    args,   \* its arguments
    res,    \* its outcome: status, returned value
    log     \* warnings it sent to the logger

vars == <<mem, entry, pc, op, args, res, log>>

(* ------------------------------ bounds -------------------------------- *)
MaxDim == 3      \* largest number of samples n (kernel matrices are n x n)
MaxRank == 2     \* largest requested rank
MaxReg == 1      \* largest regularization parameter
MaxEntry == 4    \* in-place regularization stops once a diagonal entry would exceed this
MaxSteps == 3    \* largest num_steps given to predict

(* ------------------------------ matrices ------------------------------ *)
Min(a, b) == IF a <= b THEN a ELSE b
Max(a, b) == IF a >= b THEN a ELSE b

shape0(M) == Len(M)
shape1(M) == IF Len(M) = 0 THEN 0 ELSE Len(M[1])

identity(n) == [i \in 1..n |-> [j \in 1..n |-> IF i = j THEN 1 ELSE 0]]

diagonal(M) == [i \in 1..shape0(M) |-> M[i][i]]

MatAdd(A, B) == [i \in 1..shape0(A) |-> [j \in 1..shape1(A) |-> A[i][j] + B[i][j]]]

MatScale(c, A) == [i \in 1..shape0(A) |-> [j \in 1..shape1(A) |-> c * A[i][j]]]

Transpose(A) == [i \in 1..shape1(A) |-> [j \in 1..shape0(A) |-> A[j][i]]]

RECURSIVE Dot(_, _, _, _, _)
\* sum over l = 1..k of A[i][l] * B[l][j]
Dot(A, B, i, j, k) == IF k = 0 THEN 0 ELSE Dot(A, B, i, j, k - 1) + A[i][k] * B[k][j]

\* A @ B
MatMul(A, B) == [i \in 1..shape0(A) |-> [j \in 1..shape1(B) |-> Dot(A, B, i, j, shape1(A))]]

\* np.fill_diagonal(M, d): M with its diagonal overwritten by the vector d.
fill_diagonal(M, d) ==
    [i \in 1..shape0(M) |-> [j \in 1..shape1(M) |-> IF i = j THEN d[i] ELSE M[i][j]]]

(* -------------------------------- heap -------------------------------- *)
None == 0                 \* Python's None, as a reference that is no address
CallerArrays == {1, 2}    \* the arrays the caller owns: two kernel matrices
Temp == {3, 4}            \* addresses a call may allocate
Addr == CallerArrays \cup Temp
NoArray == << >>

\* Kernel matrix of n samples: d on the diagonal, o off it (symmetric, PSD for d >= o >= 0).
Kernel(n, d, o) == [i \in 1..n |-> [j \in 1..n |-> IF i = j THEN d ELSE o]]

fresh(m) == CHOOSE a \in Temp : m[a] = NoArray /\ \A b \in Temp : m[b] = NoArray => a <= b

\* Arrays allocated by a call and not returned are dropped when it exits.
release(m, keep) == [a \in Addr |-> IF a \in Temp \ keep THEN NoArray ELSE m[a]]

Eps == 1     \* np.finfo(dtype).eps, the unit of the model's numbers

\* The default taken to be in place.
inplace_default_true == TRUE

\* The default of regularize's parameter inplace.
inplace_default == FALSE

\* regularize(M, reg, inplace): the heap after the call, and the reference returned.
regularize(m, M, reg, inplace) ==
    IF inplace
    THEN [mem |-> [m EXCEPT ![M] =
                      fill_diagonal(m[M], [i \in 1..shape0(m[M]) |->
                                              diagonal(m[M])[i] + reg * shape0(m[M])])],
          ret |-> None]
    ELSE [mem |-> [m EXCEPT ![fresh(m)] =
                      MatAdd(m[M], MatScale(shape0(m[M]) * reg, identity(shape0(m[M]))))],
          ret |-> fresh(m)]

(* ------------------------- sequences and sorting ----------------------- *)
\* Python's x[:k] for k >= 0.
Take(s, k) == SubSeq(s, 1, Min(k, Len(s)))

SeqOfLen(S, k) == [1..k -> S]

\* x[perm]: numpy's indexing of a vector (or of the columns of a matrix) by an index array.
Permute(x, perm) == [i \in 1..Len(perm) |-> x[perm[i]]]

\* np.argmax of a boolean mask: the 0-based index of the first occurrence of the maximum.
argmax(mask) ==
    LET top == IF \E i \in 1..Len(mask) : mask[i] THEN TRUE ELSE FALSE
    IN  (CHOOSE i \in 1..Len(mask) :
            /\ mask[i] = top
            /\ \A j \in 1..(i - 1) : mask[j] # top) - 1

\* An eigenvalue re + im*i; abs2 is the square of np.abs.
abs2(z) == z.re * z.re + z.im * z.im

RECURSIVE topk_from(_, _, _)
topk_from(keys, rest, k) ==
    IF k = 0 \/ rest = {} THEN {<< >>}
    ELSE UNION { {<<i>> \o t : t \in topk_from(keys, rest \ {i}, k - 1)} :
                 i \in {j \in rest : \A l \in rest : keys[j] >= keys[l]} }

\* topk(values, k).indices, values ranked by the key: every index array that lists the k
\* largest keys in descending order (equal keys in either order).
topk(keys, k) == topk_from(keys, 1..Len(keys), k)

(* ----------------------- Reduced Rank Regression ---------------------- *)
SolverTags == {"arnoldi", "full", "randomized"}

\* What scipy's eig / eigs hand back for one eigenpair of the generalized problem: the
\* eigenvalue re + im*i, and whether the eigenvector column has a non-zero imaginary entry.
EigPairs ==
    { [re |-> 3, im |-> 0, vim |-> FALSE],
      [re |-> 2, im |-> 0, vim |-> TRUE],
      [re |-> -2, im |-> 0, vim |-> FALSE],
      [re |-> 1, im |-> 1, vim |-> TRUE] }

\* _num_arnoldi_eigs: the small buffer added to the Arnoldi-computed eigenvalues.
num_arnoldi_eigs(rank, n) == Min(rank + 3, n)

\* How many eigenpairs the solver chosen by svd_solver returns.
rrr_num_eigs(svd_solver, rank, n) ==
    IF svd_solver = "arnoldi" THEN num_arnoldi_eigs(rank, n) ELSE n

is_invalid(sigma_sq) ==
    [i \in 1..Len(sigma_sq) |-> sigma_sq[i].re < 0 \/ sigma_sq[i].im # 0]

\* An unordered filter: drop every invalid eigenvalue, keep the first rank of the rest.
rrr_filter_unordered(sigma_sq, rank) ==
    LET valid == SelectSeq(sigma_sq, LAMBDA z : ~(z.re < 0 \/ z.im # 0))
    IN  [kept |-> Take(valid, rank), warn |-> Len(valid) < rank]

\* Third step of the filtering procedure: how many leading eigenpairs are kept, and
\* whether the rank-deficiency warning is logged.
rrr_filter(sigma_sq, rank) ==
    IF \E i \in 1..Len(sigma_sq) : is_invalid(sigma_sq)[i]
    THEN LET first_invalid == argmax(is_invalid(sigma_sq))
         IN  [kept |-> Take(sigma_sq, Min(first_invalid, rank)),
              warn |-> first_invalid < rank]
    ELSE [kept |-> Take(sigma_sq, rank), warn |-> FALSE]

\* The assertion made on the filtered eigenvalues instead of the eigenvectors.
rrr_svals_real(vecs_filtered) == \A i \in 1..Len(vecs_filtered) : vecs_filtered[i].im = 0

\* Fourth step: the assertion that the filtered eigenvectors have no imaginary part.
rrr_vecs_real(vecs_filtered) == \A i \in 1..Len(vecs_filtered) : ~vecs_filtered[i].vim

\* Sixth step: some kept squared singular value is below the regularization strength.
rrr_overfit(svals_filtered, tikhonov_reg) ==
    ~(\A i \in 1..Len(svals_filtered) :
         abs2(svals_filtered[i]) >= tikhonov_reg * tikhonov_reg)

\* The outcome of a fit: status, whether (U, V) was returned, the number of columns of U
\* and of V, the eigenvalues kept and the sorted list they were cut from, whether the
\* real part of the eigenvectors was taken, and the library solver that was run.
Raised(m, status, solver, lg) ==
    [mem |-> release(m, {}),
     res |-> [status |-> status, returned |-> FALSE, ncolsU |-> 0, ncolsV |-> 0,
              kept |-> << >>, sorted |-> << >>, real_taken |-> FALSE, solver |-> solver],
     log |-> lg]

Returned(m, ncolsU, ncolsV, kept, sorted, solver, lg) ==
    [mem |-> release(m, {}),
     res |-> [status |-> "ok", returned |-> TRUE, ncolsU |-> ncolsU, ncolsV |-> ncolsV,
              kept |-> kept, sorted |-> sorted, real_taken |-> FALSE, solver |-> solver],
     log |-> lg]

\* fit_reduced_rank_regression.  env is what the environment decides: solver_ok, whether
\* the eigensolver converges; solved, the eigenpairs it returns; sort_perm, how topk orders
\* eigenvalues of equal magnitude.
fit_reduced_rank_regression(m, kernel_X, kernel_Y, tikhonov_reg, rank, svd_solver, env) ==
    LET solver_ok == env.solver_ok
        solved == env.solved
        sort_perm == env.sort_perm
        penalty == Max(Eps, tikhonov_reg)
        R == regularize(m, kernel_X, penalty, inplace_default)
        sigma_sq == Permute(solved, sort_perm)
        F == rrr_filter(sigma_sq, rank)
        lg == (IF F.warn THEN {"rank deficiency"} ELSE {})
              \cup (IF rrr_vecs_real(F.kept) /\ rrr_overfit(F.kept, tikhonov_reg)
                    THEN {"overfit"} ELSE {})
        solver == IF svd_solver = "arnoldi" THEN "eigs" ELSE "eig"
    IN  IF ~solver_ok THEN Raised(R.mem, "SolverError", solver, {})
        ELSE IF ~rrr_vecs_real(F.kept)
        THEN [mem |-> release(R.mem, {}),
              res |-> [status |-> "AssertionError", returned |-> FALSE,
                       ncolsU |-> 0, ncolsV |-> 0, kept |-> F.kept, sorted |-> sigma_sq,
                       real_taken |-> FALSE, solver |-> solver],
              log |-> lg]
        ELSE [mem |-> release(R.mem, {}),
              res |-> [status |-> "ok", returned |-> TRUE,
                       ncolsU |-> Len(F.kept), ncolsV |-> Len(F.kept),
                       kept |-> F.kept, sorted |-> sigma_sq, real_taken |-> TRUE,
                       solver |-> solver],
              log |-> lg]

(* ----------------------------- RankReveal ----------------------------- *)
\* Eigenvalues (or singular values) a symmetric solver hands back.
SymVals == {0, 1, 2}

Abs(x) == IF x < 0 THEN -x ELSE x

Remove(s, i) == SubSeq(s, 1, i - 1) \o SubSeq(s, i + 1, Len(s))

RECURSIVE sort_by_magnitude(_)
\* The values in descending order of magnitude.
sort_by_magnitude(s) ==
    IF Len(s) = 0 THEN << >>
    ELSE LET i == CHOOSE i \in 1..Len(s) :
                     /\ \A j \in 1..Len(s) : Abs(s[i]) >= Abs(s[j])
                     /\ \A j \in 1..(i - 1) : Abs(s[j]) < Abs(s[i])
         IN  <<s[i]>> \o sort_by_magnitude(Remove(s, i))

\* _rank_reveal(values, vectors, rank): sort descending by magnitude, retain the strictly
\* positive entries, keep the first min(rank, #valid) of them; warn when fewer than rank
\* remain.
rank_reveal(values, rank) ==
    LET valid == SelectSeq(sort_by_magnitude(values), LAMBDA v : v > 0)
    IN  [kept |-> Take(valid, rank), sorted |-> sort_by_magnitude(values),
         warn |-> Len(valid) < rank]

(* ------------------- Randomized Reduced Rank Regression --------------- *)
\* Real parts of the eigenvalues of the sketched problem, as the solver returns them.
SketchVals == {-3, 1, 2}

Oversamples == {0, 1}

\* The try of lines 140-143 with its except clause left out: a failure of eigh is final.
rand_rrr_no_fallback(eigh_ok, eig_ok) == IF eigh_ok THEN "eigh" ELSE "failed"

\* try: eigh(F_1, F_0); except LinAlgError: eig(pinvh(F_0) @ F_1).  The solver whose
\* eigenpairs are used, "failed" when the fallback raises in its turn (nothing catches it).
rand_rrr_solve(eigh_ok, eig_ok) ==
    IF eigh_ok THEN "eigh" ELSE IF eig_ok THEN "eig" ELSE "failed"

\* fit_rand_reduced_rank_regression.  env: cho_ok, whether cho_factor finds K_X + alpha*I
\* positive definite; eigh_ok, whether the generalized eigensolver succeeds; eig_ok,
\* whether the ordinary eigensolver of the fallback does; sigma_sq, the real parts of the
\* l = rank + n_oversamples eigenvalues; idxs, the choice topk makes.
fit_rand_reduced_rank_regression(m, K_X, K_Y, tikhonov_reg, rank, n_oversamples, env) ==
    LET solver == rand_rrr_solve(env.eigh_ok, env.eig_ok)
        kept == Permute(env.sigma_sq, env.idxs)
    IN  IF ~env.cho_ok THEN Raised(m, "LinAlgError", "cho_factor", {})
        ELSE IF solver = "failed" THEN Raised(m, "SolverError", solver, {})
        ELSE Returned(m, Len(env.idxs), Len(env.idxs), kept, env.sigma_sq, solver, {})

(* ------------------- Principal Component Regression ------------------- *)
\* fit_principal_component_regression.  env: solver_ok, values (the solver's eigenvalues).
fit_principal_component_regression(m, K_X, tikhonov_reg, rank, svd_solver, env) ==
    LET dim == shape0(m[K_X])
        R == regularize(m, K_X, tikhonov_reg, inplace_default)
        solver == IF svd_solver = "arnoldi" THEN "eigsh" ELSE "eigh"
        RR == rank_reveal(env.values, rank)
        lg == IF RR.warn THEN {"rank deficiency"} ELSE {}
    IN  IF ~(rank <= dim) THEN Raised(m, "AssertionError", "none", {})
        ELSE IF svd_solver \notin {"arnoldi", "full"}
        THEN Raised(R.mem, "ValueError", "none", {})
        ELSE IF ~env.solver_ok THEN Raised(R.mem, "SolverError", solver, {})
        ELSE Returned(R.mem, Len(RR.kept), Len(RR.kept), RR.kept, RR.sorted, solver, lg)

\* Number of eigenvalues the symmetric solver chosen by svd_solver returns.
sym_num_eigs(svd_solver, rank, dim) ==
    IF svd_solver = "arnoldi" THEN num_arnoldi_eigs(rank, dim)
    ELSE IF svd_solver = "full" THEN dim ELSE 0

(* ------------------------------ Randomized PCR ------------------------ *)
\* fit_rand_principal_component_regression.  env: solver_ok, values (the singular values
\* randomized_svd returns, one per requested component).
fit_rand_principal_component_regression(m, K_X, tikhonov_reg, rank, env) ==
    LET R == regularize(m, K_X, tikhonov_reg, inplace_default)
        RR == rank_reveal(env.values, rank)
        lg == IF RR.warn THEN {"rank deficiency"} ELSE {}
    IN  IF ~env.solver_ok THEN Raised(R.mem, "SolverError", "randomized_svd", {})
        ELSE Returned(R.mem, Len(RR.kept), Len(RR.kept), RR.kept, RR.sorted,
                      "randomized_svd", lg)

(* --------------------------- Nystroem variants ------------------------ *)
\* A new array holding the value M.
alloc(m, M) == [mem |-> [m EXCEPT ![fresh(m)] = M], ret |-> fresh(m)]

\* The padding left out: the factorization's columns are returned as they are.
nys_no_pad(effective_rank, rank) == [ncols |-> effective_rank, warn |-> FALSE]

\* After modified_QR: when fewer than rank columns are left, warn and append zero columns
\* up to rank.
nys_pad(effective_rank, rank) ==
    IF effective_rank < rank THEN [ncols |-> rank, warn |-> TRUE]
    ELSE [ncols |-> effective_rank, warn |-> FALSE]

\* fit_nystroem_reduced_rank_regression.  env: solver_ok; effective_rank, the number of
\* columns the pivoted factorization modified_QR keeps (the numerical rank it detects).
fit_nystroem_reduced_rank_regression(m, kernel_X, kernel_Y, kernel_Xnys, kernel_Ynys, tikhonov_reg, rank, svd_solver, env) ==
    LET dim == shape0(m[kernel_X])
        eps == shape0(m[kernel_X]) * Eps
        reg == Max(eps, tikhonov_reg)
        kernel_Xnys_sq == alloc(m, MatAdd(MatMul(Transpose(m[kernel_Xnys]), m[kernel_Xnys]),
                                          MatScale(reg * dim, m[kernel_X])))
        R == regularize(kernel_Xnys_sq.mem, kernel_Xnys_sq.ret, eps, inplace_default)
        solver == IF svd_solver = "full" THEN "eigh" ELSE "eigsh"
        P == nys_pad(env.effective_rank, rank)
        lg == IF P.warn THEN {"numerical rank"} ELSE {}
    IN  IF svd_solver \notin {"full", "arnoldi"}
        THEN Raised(kernel_Xnys_sq.mem, "ValueError", "none", {})
        ELSE IF ~env.solver_ok THEN Raised(R.mem, "SolverError", solver, {})
        ELSE Returned(R.mem, P.ncols, P.ncols, << >>, << >>, solver, lg)

\* fit_nystroem_principal_component_regression.  env: solver_ok, values.
fit_nystroem_principal_component_regression(m, kernel_X, kernel_Y, kernel_Xnys, kernel_Ynys, tikhonov_reg, rank, svd_solver, env) ==
    LET eps == shape0(m[kernel_X]) * Eps
        reg == Max(eps, tikhonov_reg)
        R1 == regularize(m, kernel_X, reg, inplace_default)
        solver == IF svd_solver = "full" THEN "eigh" ELSE "eigsh"
        RR == rank_reveal(env.values, rank)
        R2 == regularize(R1.mem, kernel_Y, eps, inplace_default)
        lg == IF RR.warn THEN {"rank deficiency"} ELSE {}
    IN  IF svd_solver \notin {"full", "arnoldi"} THEN Raised(m, "ValueError", "none", {})
        ELSE IF ~env.solver_ok THEN Raised(R1.mem, "SolverError", solver, {})
        ELSE Returned(R2.mem, Len(RR.kept), Len(RR.kept), RR.kept, RR.sorted, solver, lg)

(* ------------------------------ Predictor ----------------------------- *)
\* Projection matrices (U, V) of shape (n, r): d where row = column, o elsewhere.
Proj(n, r, d, o) == [i \in 1..n |-> [j \in 1..r |-> IF i = j THEN d ELSE o]]

ProjSet(n, r) == {Proj(n, r, 1, 0), Proj(n, r, 1, 1)}

\* Observables evaluated on the n training outputs: column vectors.
Observables(n) == {[i \in 1..n |-> <<1>>], [i \in 1..n |-> <<i>>]}

\* A real matrix num / den * dim^(-e/2), dim the number of samples: the code's factors
\* dim**(-0.5) and dim**-1 are kept as the exponent e, the entries stay integers.
Scaled(num, den, e) == [num |-> num, den |-> den, e |-> e]

ScMul(A, B) == Scaled(MatMul(A.num, B.num), A.den * B.den, A.e + B.e)

\* A with row i and column j struck out.
Minor(A, i, j) ==
    [a \in 1..(Len(A) - 1) |-> [b \in 1..(Len(A) - 1) |->
        A[IF a < i THEN a ELSE a + 1][IF b < j THEN b ELSE b + 1]]]

Sign(k) == IF k % 2 = 0 THEN 1 ELSE -1

RECURSIVE Det(_), DetRow(_, _)
\* Laplace expansion along the first row, columns 1..j.
DetRow(A, j) ==
    IF j = 0 THEN 0
    ELSE DetRow(A, j - 1) + Sign(1 + j) * A[1][j] * Det(Minor(A, 1, j))

Det(A) == IF Len(A) = 0 THEN 1 ELSE DetRow(A, Len(A))

Adjugate(A) ==
    [i \in 1..Len(A) |-> [j \in 1..Len(A) |-> Sign(i + j) * Det(Minor(A, j, i))]]

\* np.linalg.inv of an invertible matrix.
inv(A) == Scaled(MatScale(A.den, Adjugate(A.num)), Det(A.num), -A.e)

RECURSIVE Pow(_, _)
\* A @ A @ ... @ A, p >= 1 factors.
Pow(A, p) == IF p = 1 THEN A ELSE ScMul(Pow(A, p - 1), A)

\* np.linalg.matrix_power(A, p): the identity for p = 0, the power of the inverse for
\* p < 0 (LinAlgError when A is singular).
matrix_power(A, p) ==
    IF p = 0 THEN [ok |-> TRUE, val |-> Scaled(identity(Len(A.num)), 1, 0)]
    ELSE IF p > 0 THEN [ok |-> TRUE, val |-> Pow(A, p)]
    ELSE IF Det(A.num) = 0 THEN [ok |-> FALSE, val |-> A]
    ELSE [ok |-> TRUE, val |-> Pow(inv(A), -p)]

\* The exponent predict raises the transition matrix to, one too many.
predict_power_off_by_one(num_steps) == num_steps

\* The exponent predict raises the transition matrix to.
predict_power(num_steps) == num_steps - 1

\* predict(num_steps, U, V, K_YX, K_Xin_X, obs_train_Y).
predict(m, num_steps, U, V, K_YX, K_Xin_X, obs_train_Y) ==
    LET K_dot_U == Scaled(MatMul(m[K_Xin_X], U), 1, 1)
        V_dot_obs == Scaled(MatMul(Transpose(V), obs_train_Y), 1, 1)
        V_K_XY_U == Scaled(MatMul(MatMul(Transpose(V), m[K_YX]), U), 1, 2)
        M == matrix_power(V_K_XY_U, predict_power(num_steps))
    IN  IF ~M.ok
        THEN [mem |-> release(m, {}),
              res |-> [status |-> "LinAlgError", returned |-> FALSE, value |-> << >>],
              log |-> {}]
        ELSE [mem |-> release(m, {}),
              res |-> [status |-> "ok", returned |-> TRUE,
                       value |-> ScMul(ScMul(K_dot_U, M.val), V_dot_obs)],
              log |-> {}]

(* ---------------------------- EigenDecomposer -------------------------- *)
\* Complex numbers re + im*i with integer parts.
Cplx(re, im) == [re |-> re, im |-> im]

conj(z) == Cplx(z.re, -z.im)

\* Eigenvalues scipy's eig may hand back for the real matrix W_YX: reals, some of them
\* closer to each other than the tolerance; a conjugate pair; a pair with imaginary
\* parts below the tolerance.
EigVals == {Cplx(0, 0), Cplx(1, 0), Cplx(4, 0), Cplx(1, 3), Cplx(1, -3), Cplx(4, 1), Cplx(4, -1)}

Count(s, z) == Cardinality({i \in 1..Len(s) : s[i] = z})

\* The spectrum of a real matrix: each value occurs as often as its conjugate.
ConjClosed(s) == \A i \in 1..Len(s) : Count(s, s[i]) = Count(s, conj(s[i]))

Rcond == 2     \* tolerance of the de-noising

\* fuzzy_parse_complex: real parts within the tolerance of each other are snapped to a
\* common value (the least of them), imaginary parts within the tolerance of zero to zero.
fuzzy_parse_complex(vec) ==
    [i \in 1..Len(vec) |->
        Cplx(CHOOSE x \in {vec[j].re : j \in 1..Len(vec)} :
                /\ Abs(x - vec[i].re) < Rcond
                /\ \A j \in 1..Len(vec) : Abs(vec[j].re - vec[i].re) < Rcond => x <= vec[j].re,
             IF Abs(vec[i].im) < Rcond THEN 0 ELSE vec[i].im)]

\* numpy's order of complex numbers: by real part, then by imaginary part.
LexLeq(a, b) == a.re < b.re \/ (a.re = b.re /\ a.im <= b.im)

RECURSIVE argsort_from(_, _)
argsort_from(a, rest) ==
    IF rest = {} THEN {<< >>}
    ELSE UNION { {<<i>> \o t : t \in argsort_from(a, rest \ {i})} :
                 i \in {j \in rest : \A l \in rest : LexLeq(a[j], a[l])} }

\* np.argsort(a): every index array that lists a in ascending order (equal entries in
\* either order).
argsort(a) == argsort_from(a, 1..Len(a))

\* The left eigenvectors ordered like the right ones, by the eigenvalue itself.
eig_left_order_no_conj(values) == argsort(values)

\* l_perm: the order given to the left eigenvectors.
eig_left_order(values) == argsort([i \in 1..Len(values) |-> conj(values[i])])

\* r_perm: the order given to the right eigenvectors and to the eigenvalues.
eig_right_order(values) == argsort(values)

\* estimator_eig(U, V, K_X, K_YX).  env: solver_ok; w, the eigenvalues eig returns, its
\* i-th left and right eigenvectors being the columns i of vl and vr; r_perm and l_perm,
\* the index arrays the two argsort calls return.  A column of vl or vr is named by its
\* index in the solver's output; the normalizations rescale columns and leave their
\* order alone.
estimator_eig(m, U, V, K_X, K_YX, env) ==
    LET values == fuzzy_parse_complex(env.w)
        columns == [i \in 1..Len(env.w) |-> i]
        vr == Permute(columns, env.r_perm)
        vl == Permute(columns, env.l_perm)
    IN  IF ~env.solver_ok
        THEN [mem |-> release(m, {}),
              res |-> [status |-> "SolverError", returned |-> FALSE, values |-> << >>,
                       vl |-> << >>, vr |-> << >>],
              log |-> {}]
        ELSE [mem |-> release(m, {}),
              res |-> [status |-> "ok", returned |-> TRUE,
                       values |-> Permute(values, env.r_perm), vl |-> vl, vr |-> vr],
              log |-> {}]

(* ------------------------ svdvals, RiskEstimator ---------------------- *)
\* Real parts of the eigenvalues eig returns for A @ B: small negative ones are noise.
SvdEigs == {-1, 0, 4}

\* np.sqrt on the perfect squares the model uses.
sqrt(x) == CHOOSE q \in 0..x : q * q = x

\* svdvals(U, V, K_X, K_Y).  env: v, the real parts of the eigenvalues of A @ B.  The
\* array v is the solver's own; clipping its negative entries is done in place on it.
svdvals(m, U, V, K_X, K_Y, env) ==
    LET v == alloc(m, <<env.v>>)
        clipped == [v.mem EXCEPT ![v.ret] =
                       <<[i \in 1..Len(env.v) |-> IF env.v[i] < 0 THEN 0 ELSE env.v[i]]>>]
    IN  [mem |-> release(clipped, {}),
         res |-> [status |-> "ok", returned |-> TRUE,
                  value |-> [i \in 1..Len(env.v) |-> sqrt(clipped[v.ret][1][i])]],
         log |-> {}]

RECURSIVE TraceTo(_, _)
TraceTo(A, k) == IF k = 0 THEN 0 ELSE TraceTo(A, k - 1) + A[k][k]

\* np.trace
trace(A) == TraceTo(A, Len(A))

\* estimator_risk: r_Y + r_XY + r_X as the fraction num / den, den = n_val * n_train^2.
estimator_risk(m, kernel_Yv, kernel_Y, kernel_XXv, kernel_YYv, U, V) ==
    LET n_train == shape0(m[kernel_Y])
        n_val == shape0(m[kernel_Yv])
        UtXXv == MatMul(Transpose(U), m[kernel_XXv])
        r_Y == trace(m[kernel_Yv])
        r_XY == -2 * trace(MatMul(MatMul(Transpose(m[kernel_YYv]), V), UtXXv))
        r_X == trace(MatMul(MatMul(MatMul(MatMul(Transpose(UtXXv), Transpose(V)),
                                          m[kernel_Y]), V), UtXXv))
    IN  [mem |-> release(m, {}),
         res |-> [status |-> "ok", returned |-> TRUE,
                  value |-> [num |-> n_train * n_train * r_Y + n_train * r_XY + r_X,
                             den |-> n_val * n_train * n_train]],
         log |-> {}]

(* ------------------------------- actions ------------------------------ *)
Init ==
    /\ \E n \in 1..MaxDim :
          mem = [a \in Addr |-> IF a = 1 THEN Kernel(n, 2, 1)
                                ELSE IF a = 2 THEN Kernel(n, 1, 0) ELSE NoArray]
    /\ entry = mem
    /\ pc = "idle"
    /\ op = "none"
    /\ args = [M |-> None]
    /\ res = [status |-> "none"]
    /\ log = {}

\* A direct call of regularize on one of the caller's arrays.
Regularize ==
    /\ pc = "idle"
    /\ \E M \in CallerArrays, reg \in 0..MaxReg, inplace \in BOOLEAN :
          /\ inplace => mem[M][1][1] + reg * shape0(mem[M]) <= MaxEntry
          /\ LET R == regularize(mem, M, reg, inplace)
             IN  /\ mem' = R.mem
                 /\ res' = [status |-> "ok", ret |-> R.ret]
          /\ args' = [M |-> M, reg |-> reg, inplace |-> inplace]
    /\ entry' = mem
    /\ op' = "regularize"
    /\ log' = {}
    /\ pc' = "done"

\* A call of fit_reduced_rank_regression on the caller's kernel matrices.
FitRRR ==
    /\ pc = "idle"
    /\ \E kernel_X \in CallerArrays, tikhonov_reg \in 0..MaxReg, rank \in 1..MaxRank,
          svd_solver \in SolverTags, solver_ok \in BOOLEAN :
       \E solved \in SeqOfLen(EigPairs,
                              IF solver_ok
                              THEN rrr_num_eigs(svd_solver, rank, shape0(mem[kernel_X]))
                              ELSE 0) :
       \E sort_perm \in topk([i \in 1..Len(solved) |-> abs2(solved[i])], Len(solved)) :
          LET kernel_Y == CHOOSE a \in CallerArrays : a # kernel_X
              env == [solver_ok |-> solver_ok, solved |-> solved, sort_perm |-> sort_perm]
              F == fit_reduced_rank_regression(mem, kernel_X, kernel_Y, tikhonov_reg, rank,
                                               svd_solver, env)
          IN  /\ mem' = F.mem
              /\ res' = F.res
              /\ log' = F.log
              /\ args' = [kernel_X |-> kernel_X, kernel_Y |-> kernel_Y,
                          tikhonov_reg |-> tikhonov_reg, rank |-> rank,
                          svd_solver |-> svd_solver, solved |-> solved,
                          solver_ok |-> solver_ok]
    /\ entry' = mem
    /\ op' = "fit_reduced_rank_regression"
    /\ pc' = "done"

\* A call of fit_rand_reduced_rank_regression.
FitRandRRR ==
    /\ pc = "idle"
    /\ \E K_X \in CallerArrays, tikhonov_reg \in 0..MaxReg, rank \in 1..MaxRank,
          n_oversamples \in Oversamples, cho_ok \in BOOLEAN, eigh_ok \in BOOLEAN,
          eig_ok \in BOOLEAN :
       \E sigma_sq \in SeqOfLen(SketchVals,
                                IF cho_ok /\ (eigh_ok \/ eig_ok)
                                THEN rank + n_oversamples ELSE 0) :
       \E idxs \in topk(sigma_sq, IF cho_ok /\ (eigh_ok \/ eig_ok) THEN rank ELSE 0) :
          LET K_Y == CHOOSE a \in CallerArrays : a # K_X
              env == [cho_ok |-> cho_ok, eigh_ok |-> eigh_ok, eig_ok |-> eig_ok,
                      sigma_sq |-> sigma_sq, idxs |-> idxs]
              F == fit_rand_reduced_rank_regression(mem, K_X, K_Y, tikhonov_reg, rank,
                                                    n_oversamples, env)
          IN  /\ eigh_ok => eig_ok
              /\ cho_ok \/ eigh_ok
              /\ mem' = F.mem
              /\ res' = F.res
              /\ log' = F.log
              /\ args' = [K_X |-> K_X, K_Y |-> K_Y, tikhonov_reg |-> tikhonov_reg,
                          rank |-> rank, n_oversamples |-> n_oversamples,
                          cho_ok |-> cho_ok, eigh_ok |-> eigh_ok, eig_ok |-> eig_ok,
                          solved |-> sigma_sq]
    /\ entry' = mem
    /\ op' = "fit_rand_reduced_rank_regression"
    /\ pc' = "done"

\* A call of fit_principal_component_regression.
FitPCR ==
    /\ pc = "idle"
    /\ \E K_X \in CallerArrays, tikhonov_reg \in 0..MaxReg, rank \in 1..MaxRank,
          svd_solver \in SolverTags, solver_ok \in BOOLEAN :
       \E values \in SeqOfLen(SymVals,
                              IF solver_ok /\ rank <= shape0(mem[K_X])
                              THEN sym_num_eigs(svd_solver, rank, shape0(mem[K_X]))
                              ELSE 0) :
          LET env == [solver_ok |-> solver_ok, values |-> values]
              F == fit_principal_component_regression(mem, K_X, tikhonov_reg, rank,
                                                      svd_solver, env)
          IN  /\ mem' = F.mem
              /\ res' = F.res
              /\ log' = F.log
              /\ args' = [K_X |-> K_X, tikhonov_reg |-> tikhonov_reg, rank |-> rank,
                          svd_solver |-> svd_solver, solved |-> values,
                          solver_ok |-> solver_ok]
    /\ entry' = mem
    /\ op' = "fit_principal_component_regression"
    /\ pc' = "done"

\* A call of fit_rand_principal_component_regression.
FitRandPCR ==
    /\ pc = "idle"
    /\ \E K_X \in CallerArrays, tikhonov_reg \in 0..MaxReg, rank \in 1..MaxRank,
          solver_ok \in BOOLEAN :
       \E values \in SeqOfLen(SymVals,
                              IF solver_ok THEN Min(rank, shape0(mem[K_X])) ELSE 0) :
          LET env == [solver_ok |-> solver_ok, values |-> values]
              F == fit_rand_principal_component_regression(mem, K_X, tikhonov_reg, rank, env)
          IN  /\ mem' = F.mem
              /\ res' = F.res
              /\ log' = F.log
              /\ args' = [K_X |-> K_X, tikhonov_reg |-> tikhonov_reg, rank |-> rank,
                          solved |-> values, solver_ok |-> solver_ok]
    /\ entry' = mem
    /\ op' = "fit_rand_principal_component_regression"
    /\ pc' = "done"

\* A call of fit_nystroem_reduced_rank_regression, the inducing points being the training
\* set (kernel_Xnys = kernel_X, kernel_Ynys = kernel_Y).
FitNysRRR ==
    /\ pc = "idle"
    /\ \E kernel_X \in CallerArrays, tikhonov_reg \in 0..MaxReg, rank \in 1..MaxRank,
          svd_solver \in SolverTags, solver_ok \in BOOLEAN :
       \E effective_rank \in
            0..(IF solver_ok
                THEN sym_num_eigs(svd_solver, rank, shape0(mem[kernel_X])) ELSE 0) :
          LET kernel_Y == CHOOSE a \in CallerArrays : a # kernel_X
              env == [solver_ok |-> solver_ok, effective_rank |-> effective_rank]
              F == fit_nystroem_reduced_rank_regression(mem, kernel_X, kernel_Y, kernel_X,
                       kernel_Y, tikhonov_reg, rank, svd_solver, env)
          IN  /\ mem' = F.mem
              /\ res' = F.res
              /\ log' = F.log
              /\ args' = [kernel_X |-> kernel_X, kernel_Y |-> kernel_Y,
                          tikhonov_reg |-> tikhonov_reg, rank |-> rank,
                          svd_solver |-> svd_solver, effective_rank |-> effective_rank,
                          solver_ok |-> solver_ok]
    /\ entry' = mem
    /\ op' = "fit_nystroem_reduced_rank_regression"
    /\ pc' = "done"

\* A call of fit_nystroem_principal_component_regression, the inducing points being the
\* training set.
FitNysPCR ==
    /\ pc = "idle"
    /\ \E kernel_X \in CallerArrays, tikhonov_reg \in 0..MaxReg, rank \in 1..MaxRank,
          svd_solver \in SolverTags, solver_ok \in BOOLEAN :
       \E values \in SeqOfLen(SymVals,
                              IF solver_ok
                              THEN sym_num_eigs(svd_solver, rank, shape0(mem[kernel_X]))
                              ELSE 0) :
          LET kernel_Y == CHOOSE a \in CallerArrays : a # kernel_X
              env == [solver_ok |-> solver_ok, values |-> values]
              F == fit_nystroem_principal_component_regression(mem, kernel_X, kernel_Y,
                       kernel_X, kernel_Y, tikhonov_reg, rank, svd_solver, env)
          IN  /\ mem' = F.mem
              /\ res' = F.res
              /\ log' = F.log
              /\ args' = [kernel_X |-> kernel_X, kernel_Y |-> kernel_Y,
                          tikhonov_reg |-> tikhonov_reg, rank |-> rank,
                          svd_solver |-> svd_solver, solved |-> values,
                          solver_ok |-> solver_ok]
    /\ entry' = mem
    /\ op' = "fit_nystroem_principal_component_regression"
    /\ pc' = "done"

\* A call of predict, the initial conditions being as many as the samples.
Predict ==
    /\ pc = "idle"
    /\ \E num_steps \in (-1)..MaxSteps, r \in 1..MaxRank, K_YX \in CallerArrays,
          K_Xin_X \in CallerArrays :
       \E U \in ProjSet(shape0(mem[K_YX]), r), V \in ProjSet(shape0(mem[K_YX]), r),
          obs_train_Y \in Observables(shape0(mem[K_YX])) :
          LET F == predict(mem, num_steps, U, V, K_YX, K_Xin_X, obs_train_Y)
          IN  /\ mem' = F.mem
              /\ res' = F.res
              /\ log' = F.log
              /\ args' = [num_steps |-> num_steps, U |-> U, V |-> V, K_YX |-> K_YX,
                          K_Xin_X |-> K_Xin_X, obs_train_Y |-> obs_train_Y]
    /\ entry' = mem
    /\ op' = "predict"
    /\ pc' = "done"

\* A call of estimator_eig with the projections of a Principal Component Regression
\* (U = V).
EstimatorEig ==
    /\ pc = "idle"
    /\ \E r \in 1..MaxRank, K_X \in CallerArrays, solver_ok \in BOOLEAN :
       \E U \in ProjSet(shape0(mem[K_X]), r),
          w \in {s \in SeqOfLen(EigVals, IF solver_ok THEN r ELSE 0) : ConjClosed(s)} :
       \E r_perm \in eig_right_order(fuzzy_parse_complex(w)),
          l_perm \in eig_left_order(fuzzy_parse_complex(w)) :
          LET K_YX == CHOOSE a \in CallerArrays : a # K_X
              env == [solver_ok |-> solver_ok, w |-> w, r_perm |-> r_perm,
                      l_perm |-> l_perm]
              F == estimator_eig(mem, U, U, K_X, K_YX, env)
          IN  /\ mem' = F.mem
              /\ res' = F.res
              /\ log' = F.log
              /\ args' = [U |-> U, V |-> U, K_X |-> K_X, K_YX |-> K_YX, w |-> w]
    /\ entry' = mem
    /\ op' = "estimator_eig"
    /\ pc' = "done"

\* A call of svdvals.
Svdvals ==
    /\ pc = "idle"
    /\ \E r \in 1..MaxRank, K_X \in CallerArrays :
       \E U \in ProjSet(shape0(mem[K_X]), r), V \in ProjSet(shape0(mem[K_X]), r),
          v \in SeqOfLen(SvdEigs, r) :
          LET K_Y == CHOOSE a \in CallerArrays : a # K_X
              F == svdvals(mem, U, V, K_X, K_Y, [v |-> v])
          IN  /\ mem' = F.mem
              /\ res' = F.res
              /\ log' = F.log
              /\ args' = [U |-> U, V |-> V, K_X |-> K_X, K_Y |-> K_Y, v |-> v]
    /\ entry' = mem
    /\ op' = "svdvals"
    /\ pc' = "done"

\* A call of estimator_risk, the validation set being as large as the training set.
EstimatorRisk ==
    /\ pc = "idle"
    /\ \E r \in 1..MaxRank, kernel_Y \in CallerArrays, kernel_XXv \in CallerArrays :
       \E U \in ProjSet(shape0(mem[kernel_Y]), r), V \in ProjSet(shape0(mem[kernel_Y]), r) :
          LET kernel_Yv == CHOOSE a \in CallerArrays : a # kernel_Y
              kernel_YYv == CHOOSE a \in CallerArrays : a # kernel_XXv
              F == estimator_risk(mem, kernel_Yv, kernel_Y, kernel_XXv, kernel_YYv, U, V)
          IN  /\ mem' = F.mem
              /\ res' = F.res
              /\ log' = F.log
              /\ args' = [kernel_Yv |-> kernel_Yv, kernel_Y |-> kernel_Y,
                          kernel_XXv |-> kernel_XXv, kernel_YYv |-> kernel_YYv,
                          U |-> U, V |-> V]
    /\ entry' = mem
    /\ op' = "estimator_risk"
    /\ pc' = "done"

\* The caller takes the outcome and drops the temporaries it was handed.
Return ==
    /\ pc = "done"
    /\ pc' = "idle"
    /\ mem' = release(mem, {})
    /\ entry' = mem'
    /\ op' = "none"
    /\ args' = [M |-> None]
    /\ res' = [status |-> "none"]
    /\ log' = {}

Next ==
    \/ Regularize
    \/ FitRRR
    \/ FitRandRRR
    \/ FitPCR
    \/ FitRandPCR
    \/ FitNysRRR
    \/ FitNysPCR
    \/ Predict
    \/ EstimatorEig
    \/ Svdvals
    \/ EstimatorRisk
    \/ Return

Spec == Init /\ [][Next]_vars

(* ------------------------------- claims ------------------------------- *)
Invalid(z) == z.re < 0 \/ z.im # 0

RRRDone == pc = "done" /\ op = "fit_reduced_rank_regression"

\* The eigenvalue filter of fit_reduced_rank_regression has run (the solver converged).
RRRFiltered == RRRDone /\ res.status \in {"ok", "AssertionError"}

\* 1-based positions of the invalid eigenvalues in the sorted list.
BadPositions == {i \in 1..Len(res.sorted) : Invalid(res.sorted[i])}

\* Number of entries before the first invalid one (all of them when none is invalid).
I0 ==
    IF BadPositions = {} THEN Len(res.sorted)
    ELSE (CHOOSE i \in BadPositions : \A j \in BadPositions : i <= j) - 1

\* C1: in fit_reduced_rank_regression the eigenvalues are sorted by magnitude descending
\* and the retained eigenpairs are exactly the first min(rank, i0) entries of that order,
\* i0 being the position of the first invalid eigenvalue (the first rank entries when none
\* is invalid); so no retained eigenvalue is invalid, and no eigenvalue that comes after
\* an invalid one is retained.
C1_TruncateAtFirstInvalid ==
    RRRFiltered =>
        /\ \A i \in 1..(Len(res.sorted) - 1) :
              abs2(res.sorted[i]) >= abs2(res.sorted[i + 1])
        /\ Len(res.kept) = Min(args.rank, I0)
        /\ \A i \in 1..Len(res.kept) : res.kept[i] = res.sorted[i]
        /\ \A i \in 1..Len(res.kept) : ~Invalid(res.kept[i])
        /\ \A i \in BadPositions : Len(res.kept) < i

\* C1 witness: the first invalid eigenvalue lies within the requested rank and is
\* followed by a valid one in sorted order; what is kept is the non-empty prefix before it.
C1_Witness ==
    /\ RRRFiltered
    /\ \E i \in BadPositions : \E j \in (i + 1)..Len(res.sorted) :
          /\ ~Invalid(res.sorted[j])
          /\ i <= args.rank
    /\ Len(res.kept) >= 1
    /\ res.returned

\* C3 (as claimed): whenever fit_reduced_rank_regression returns fewer columns than the
\* requested rank, the rank-deficiency warning was logged.
C3_FewerColumnsWarned ==
    (RRRDone /\ res.returned /\ res.ncolsU < args.rank) => "rank deficiency" \in log

\* C6: if a retained eigenvector of fit_reduced_rank_regression has a non-zero imaginary
\* component the call raises and returns no (U, V); the real part of the eigenvectors is
\* taken only when every retained eigenvector is real.
C6_ComplexVectorIsFatal ==
    RRRFiltered =>
        /\ (\E i \in 1..Len(res.kept) : res.kept[i].vim) =>
              (res.status = "AssertionError" /\ ~res.returned /\ ~res.real_taken)
        /\ res.real_taken => \A i \in 1..Len(res.kept) : ~res.kept[i].vim

\* C6 witness: a retained eigenvector is complex and the call has raised.
C6_Witness ==
    /\ RRRFiltered
    /\ \E i \in 1..Len(res.kept) : res.kept[i].vim
    /\ res.status = "AssertionError"

FitOps ==
    {"fit_reduced_rank_regression", "fit_rand_reduced_rank_regression",
     "fit_principal_component_regression", "fit_rand_principal_component_regression",
     "fit_nystroem_reduced_rank_regression", "fit_nystroem_principal_component_regression"}

\* The fit operations that take a solver tag.
TaggedFitOps ==
    {"fit_reduced_rank_regression", "fit_principal_component_regression",
     "fit_nystroem_reduced_rank_regression", "fit_nystroem_principal_component_regression"}

\* A fit called with rank <= n has returned (U, V).
FitReturned ==
    /\ pc = "done"
    /\ op \in FitOps
    /\ res.returned
    /\ args.rank <= shape0(entry[1])

\* Number of strictly positive values among those the symmetric solver returned.
NumPositive == Cardinality({i \in 1..Len(args.solved) : args.solved[i] > 0})

C4_UnknownTagFails ==
    (pc = "done" /\ op \in TaggedFitOps /\ args.svd_solver \notin {"arnoldi", "full"})
        => (~res.returned /\ res.solver = "none")

PredictDone == pc = "done" /\ op = "predict"

\* C5 (as claimed): predict called with num_steps < 1 fails and returns no forecast.
C5_NonPositiveStepsRejected ==
    (PredictDone /\ args.num_steps < 1) => (~res.returned /\ res.status # "ok")

\* The one-step transition matrix V^T K_YX U of the call (without its factor 1/n).
Transition == MatMul(MatMul(Transpose(args.V), entry[args.K_YX]), args.U)

RECURSIVE Evolve(_, _)
\* The observable coefficients V^T obs advanced k times by the one-step transition.
Evolve(x, k) == IF k = 0 THEN x ELSE MatMul(Transition, Evolve(x, k - 1))

\* C10: for num_steps >= 1 predict returns (n^-1/2 K_Xin_X U) T^(num_steps-1)
\* (n^-1/2 V^T observable), T = n^-1 V^T K_YX U: the forecast is K_Xin_X U applied to
\* V^T observable advanced num_steps - 1 times by the one-step transition, each step
\* adding one factor T (and one factor 1/n), none at all for num_steps = 1.
C10_PredictComposes ==
    (PredictDone /\ args.num_steps >= 1) =>
        /\ res.returned
        /\ res.value.den = 1
        /\ res.value.e = 2 * args.num_steps
        /\ res.value.num =
              MatMul(MatMul(entry[args.K_Xin_X], args.U),
                     Evolve(MatMul(Transpose(args.V), args.obs_train_Y),
                            args.num_steps - 1))
        /\ args.num_steps = 1 =>
              res.value.num = MatMul(MatMul(entry[args.K_Xin_X], args.U),
                                     MatMul(Transpose(args.V), args.obs_train_Y))

\* C10 witness: a forecast three steps ahead, with a transition matrix that is not a
\* multiple of the identity and a forecast that is not zero.
C10_Witness ==
    /\ PredictDone
    /\ args.num_steps = 3
    /\ res.returned
    /\ Len(Transition) >= 2
    /\ Transition[1][2] # 0
    /\ \E i \in 1..Len(res.value.num) : res.value.num[i][1] # 0

EigDone == pc = "done" /\ op = "estimator_eig" /\ res.returned

\* The solver's eigenvalues after de-noising, in the solver's order.
Parsed == fuzzy_parse_complex(args.w)

\* C9: estimator_eig returns the (de-noised) eigenvalues in ascending order, by real part
\* and then imaginary part, and index i pairs across left and right: right eigenvector i
\* is the solver's right vector of values[i], left eigenvector i is a solver's left vector
\* whose eigenvalue has values[i] as its conjugate -- for every spectrum closed under
\* conjugation.
C9_EigPairing ==
    EigDone =>
        /\ \A i \in 1..(Len(res.values) - 1) : LexLeq(res.values[i], res.values[i + 1])
        /\ Len(res.vr) = Len(args.w) /\ Len(res.vl) = Len(args.w)
        /\ \A i, j \in 1..Len(args.w) :
              i # j => (res.vr[i] # res.vr[j] /\ res.vl[i] # res.vl[j])
        /\ \A i \in 1..Len(res.values) : Parsed[res.vr[i]] = res.values[i]
        /\ \A i \in 1..Len(res.values) : conj(Parsed[res.vl[i]]) = res.values[i]

\* C9 witness: the spectrum holds a complex-conjugate pair, and the left eigenvectors got
\* an order other than that of the right ones.
C9_Witness ==
    /\ EigDone
    /\ \E i \in 1..Len(res.values) : res.values[i].im # 0
    /\ res.vl # res.vr

RegularizeDone == pc = "done" /\ op = "regularize"

\* C7 (as claimed): regularize(M, reg, inplace) yields the matrix M + reg*n*I as its
\* result, for inplace = false and for inplace = true: off-diagonal entries those of M,
\* diagonal entries M[i][i] + reg*n.
C7_RegularizeResult ==
    RegularizeDone =>
        /\ res.ret # None
        /\ mem[res.ret] =
              [i \in 1..shape0(entry[args.M]) |-> [j \in 1..shape0(entry[args.M]) |->
                  IF i = j THEN entry[args.M][i][i] + args.reg * shape0(entry[args.M])
                  ELSE entry[args.M][i][j]]]

\* C8: no operation changes an input matrix, except regularize with inplace = true.
\* regularize with inplace = false returns a newly allocated matrix, not aliased with M
\* and equal to M when reg = 0; every fit, predict, estimator_eig, svdvals and
\* estimator_risk leave the caller's kernel matrices as they were; regularize with
\* inplace = true changes only diagonal entries of M, and no other array.
C8_InputsUnchanged ==
    pc = "done" =>
        /\ ~(op = "regularize" /\ args.inplace) =>
              \A a \in CallerArrays : mem[a] = entry[a]
        /\ (op = "regularize" /\ ~args.inplace) =>
              /\ res.ret \in Addr \ CallerArrays
              /\ res.ret # args.M
              /\ entry[res.ret] = NoArray
              /\ args.reg = 0 => mem[res.ret] = entry[args.M]
        /\ (op = "regularize" /\ args.inplace) =>
              /\ \A a \in Addr \ {args.M} : mem[a] = entry[a]
              /\ \A i, j \in 1..shape0(entry[args.M]) :
                    i # j => mem[args.M][i][j] = entry[args.M][i][j]

\* C8 witness: regularize with inplace = true has changed the diagonal of a matrix that
\* has off-diagonal entries.
C8_Witness ==
    /\ RegularizeDone
    /\ args.inplace
    /\ shape0(entry[args.M]) >= 2
    /\ mem[args.M][1][1] # entry[args.M][1][1]

(* ------------------------- eigensolver failures ----------------------- *)
\* fit_rand_reduced_rank_regression has run, and its generalized eigensolver (reached,
\* the Cholesky factorization having succeeded) has failed.
EighFailed ==
    /\ pc = "done"
    /\ op = "fit_rand_reduced_rank_regression"
    /\ args.cho_ok
    /\ ~args.eigh_ok

\* Number of entries of s that are at least v.
CountGE(s, v) == Cardinality({i \in 1..Len(s) : s[i] >= v})

\* The kept eigenvalues are the rank largest of the solver's, by value, in descending
\* order.
TopByValue ==
    /\ Len(res.kept) = args.rank
    /\ res.ncolsU = args.rank
    /\ res.ncolsV = args.rank
    /\ \A i \in 1..(Len(res.kept) - 1) : res.kept[i] >= res.kept[i + 1]
    /\ \A v \in SketchVals :
          CountGE(res.kept, v) = Min(args.rank, CountGE(args.solved, v))

\* A fit other than fit_rand_reduced_rank_regression whose eigensolver fails returns no
\* (U, V).
OtherFitsFailHard ==
    (/\ pc = "done"
     /\ op \in FitOps \ {"fit_rand_reduced_rank_regression"}
     /\ ~args.solver_ok)
        => (~res.returned /\ res.status # "ok")

\* C11 (as claimed): a failure of the generalized eigensolver of
\* fit_rand_reduced_rank_regression never reaches the caller: the operation goes on with
\* the ordinary eigenproblem and still returns (U, V) built from the top-r eigenvalues by
\* value; in every other fit an eigensolver failure is fatal.
C11_FallbackAlwaysReturns ==
    /\ EighFailed => (res.returned /\ res.solver = "eig" /\ TopByValue)
    /\ OtherFitsFailHard

\* C11 (amended): when the generalized eigensolver of fit_rand_reduced_rank_regression
\* fails, the ordinary eigensolver is run on pinv(F_0) F_1; if that one succeeds, (U, V)
\* are returned, built from the top-r eigenvalues by value (not magnitude); if it fails
\* too, its failure reaches the caller and no (U, V) is returned.  In every other fit an
\* eigensolver failure is fatal.
C11_FallbackRecovery ==
    /\ (EighFailed /\ args.eig_ok) =>
          (res.returned /\ res.status = "ok" /\ res.solver = "eig" /\ TopByValue)
    /\ (EighFailed /\ ~args.eig_ok) => (~res.returned /\ res.status = "SolverError")
    /\ OtherFitsFailHard

\* C11 witness: the fallback has run after a failure of the generalized eigensolver and
\* (U, V) are returned, the eigenvalue of largest magnitude being negative and left out.
C11_Witness ==
    /\ EighFailed
    /\ args.eig_ok
    /\ res.returned
    /\ res.solver = "eig"
    /\ args.rank = 2
    /\ \E i \in 1..Len(args.solved) : args.solved[i] = -3
    /\ \A i \in 1..Len(res.kept) : res.kept[i] > 0
====
